---- MODULE Spec2Model ----
(***************************************************************************)
(* A model of LSTM.py: the EarlyStopping monitor, the per-video training   *)
(* loop train_until_threshold_met with its checkpoint files, the           *)
(* annotation parser, the three dataset classes and the report writers.    *)
(*                                                                         *)
(* Numbers that the program holds as Python floats (accuracies, min_delta) *)
(* are exact rationals <<numerator, denominator>> here, compared by cross  *)
(* multiplication.  The inputs are chosen so that no difference of two     *)
(* accuracies the training loop sees is exactly min_delta, the one place   *)
(* where binary floating point and exact arithmetic disagree.              *)
(***************************************************************************)
EXTENDS Integers, Sequences, FiniteSets, TLC

VARIABLES
    \* ---- train_until_threshold_met
    pc,                 \* "next": at the head of the for loop; "train": in the while loop; "done"
    video,              \* 1-based position in zip(csv_files, xml_files, validation_csv_files); 0 before the first
    validation_dataset, \* <<>> or <<the ValidationComparisonDataset of the current video>>
    acc_profile,        \* SpecAcc only: the accuracy sequence handed to the loop instead of the CSV
    model,              \* the classifier of the current video: [video, epochs] (epochs = training passes applied)
    best_accuracy,      \* local best_accuracy
    epoch,              \* local epoch
    early_stopping,     \* the EarlyStopping object
    save_dir,           \* files of model_save_dir: a set of [path, state_dict]
    \* ---- history of the run (not program state)
    hist,               \* validation accuracies of the current video, one per completed epoch
    written,            \* epochs of the current video at which torch.save was called
    saved,              \* every [path, state_dict] torch.save was called with so far, over all videos
    fed,                \* SpecES only: the values passed to early_stopping so far
    \* ---- annotations, datasets and reports
    xml_file,           \* the annotation document: its track elements in document order
    annotations,        \* <<>> before parse_annotations has run, <<dict>> after
    csv_file,           \* a CSV file as pandas reads it: [columns, rows]
    dataset,            \* <<>> or <<the dataset object constructed last>>
    raised,             \* <<>> or <<the exception that ended the last call>>
    item,               \* <<>> or <<[idx, value] of the last __getitem__>>
    report_file,        \* <<>> or <<the report CSV written last>>
    report_ids          \* the label ids the report was written from (not program state)

trainVars == <<pc, video, validation_dataset, acc_profile, model, best_accuracy, epoch,
               early_stopping, save_dir, hist, written, saved, fed>>

dataVars == <<xml_file, annotations, csv_file, dataset, raised, item, report_file, report_ids>>

vars == <<trainVars, dataVars>>

-----------------------------------------------------------------------------
(* Bounds of the model *)

NumVideos == 2

MaxRows == 3

PrefixLen == 4

MaxPatience == 2

MaxCalls == 4

MaxTracks == 2

MaxCsvRows == 2

MaxPredictions == 2

-----------------------------------------------------------------------------
(* The parts of the state a specification does not use *)

TrainIdle(at) ==
    /\ pc = at
    /\ video = 0
    /\ validation_dataset = <<>>
    /\ acc_profile = [head |-> <<0>>, step |-> 0, period |-> 1]
    /\ model = [video |-> 0, epochs |-> 0]
    /\ best_accuracy = <<0, 1>>
    /\ epoch = 0
    /\ early_stopping = <<>>
    /\ save_dir = {}
    /\ hist = <<>>
    /\ written = {}
    /\ saved = {}
    /\ fed = <<>>

DataIdle ==
    /\ xml_file = <<>>
    /\ annotations = <<>>
    /\ csv_file = [columns |-> {}, rows |-> <<>>]
    /\ dataset = <<>>
    /\ raised = <<>>
    /\ item = <<>>
    /\ report_file = <<>>
    /\ report_ids = <<>>

-----------------------------------------------------------------------------
(* Constants, lines 16-18 *)

STRIKE_TYPES == <<"No Strike", "Jab", "Cross", "Hook", "Upper", "Leg Kick", "Body Kick", "High Kick">>

NUM_CLASSES == Len(STRIKE_TYPES)

StrikeNames == {STRIKE_TYPES[i] : i \in 1..NUM_CLASSES}

\* {name: i for i, name in enumerate(STRIKE_TYPES)}: ids are 0-based
STRIKE_TYPE_TO_ID == [name \in StrikeNames |-> (CHOOSE i \in 1..NUM_CLASSES : STRIKE_TYPES[i] = name) - 1]

-----------------------------------------------------------------------------
(* Exact rationals *)

Rat(n, d) == <<n, d>>

RatGT(a, b) == a[1] * b[2] > b[1] * a[2]

\* a - b > m
RatDiffGT(a, b, m) == (a[1] * b[2] - b[1] * a[2]) * m[2] > m[1] * a[2] * b[2]

-----------------------------------------------------------------------------
(* class EarlyStopping, lines 22-39.  best_loss is <<>> for None, <<v>> otherwise. *)

EarlyStopping_init(patience, min_delta) ==
    [patience |-> patience, min_delta |-> min_delta,
     counter |-> 0, best_loss |-> <<>>, early_stop |-> FALSE]

\* a - b >= m
RatDiffGE(a, b, m) == (a[1] * b[2] - b[1] * a[2]) * m[2] >= m[1] * a[2] * b[2]

\* EarlyStopping.__call__ taking a decrease of exactly min_delta for an improvement
EarlyStopping_call_ge(self, val_loss) ==
    IF self.best_loss = <<>>
    THEN [self EXCEPT !.best_loss = <<val_loss>>]
    ELSE IF RatDiffGE(self.best_loss[1], val_loss, self.min_delta)
    THEN [self EXCEPT !.best_loss = <<val_loss>>, !.counter = 0]
    ELSE [self EXCEPT !.counter = self.counter + 1,
                      !.early_stop = IF self.counter + 1 >= self.patience
                                     THEN TRUE ELSE self.early_stop]

\* EarlyStopping.__call__ clearing the stop flag on an improvement
EarlyStopping_call_clears(self, val_loss) ==
    IF self.best_loss = <<>>
    THEN [self EXCEPT !.best_loss = <<val_loss>>]
    ELSE IF RatDiffGT(self.best_loss[1], val_loss, self.min_delta)
    THEN [self EXCEPT !.best_loss = <<val_loss>>, !.counter = 0, !.early_stop = FALSE]
    ELSE [self EXCEPT !.counter = self.counter + 1,
                      !.early_stop = IF self.counter + 1 >= self.patience
                                     THEN TRUE ELSE self.early_stop]

EarlyStopping_call(self, val_loss) ==
    IF self.best_loss = <<>>
    THEN [self EXCEPT !.best_loss = <<val_loss>>]
    ELSE IF RatDiffGT(self.best_loss[1], val_loss, self.min_delta)
    THEN [self EXCEPT !.best_loss = <<val_loss>>, !.counter = 0]
    ELSE [self EXCEPT !.counter = self.counter + 1,
                      !.early_stop = IF self.counter + 1 >= self.patience
                                     THEN TRUE ELSE self.early_stop]

-----------------------------------------------------------------------------
(* Python values *)

\* str(i) and int(text) for the small integers of the model
DecimalText == <<"0", "1", "2", "3", "4", "5", "6", "7">>

py_str(i) == DecimalText[i + 1]

py_int(text) == (CHOOSE i \in 1..Len(DecimalText) : DecimalText[i] = text) - 1

\* d.get(key, default) and d[key] = value, a dict being a function
dict_get(d, key, default) == IF key \in DOMAIN d THEN d[key] ELSE default

dict_set(d, key, value) == [k \in DOMAIN d \cup {key} |-> IF k = key THEN value ELSE d[k]]

\* the result of a call: the exception that ended it, or its value
Raise(type, where) == [raised |-> <<[type |-> type, where |-> where]>>, value |-> <<>>]

Value(v) == [raised |-> <<>>, value |-> <<v>>]

-----------------------------------------------------------------------------
(* CSV files.  A file is [columns, rows]; a row maps each column to the     *)
(* text of its cell.  Column names of the model:                            *)

ColumnUniverse ==
    {"frame_id", "Frame Number", "Predicted Strike", "Actual Strike", "keypoint_0_x", "keypoint_0_conf"}

\* 'keypoint' in col
has_keypoint(col) == col \in {"keypoint_0_x", "keypoint_0_conf"}

\* '_x' in col or '_y' in col
has_axis(col) == col \in {"keypoint_0_x"}

-----------------------------------------------------------------------------
(* class ValidationKeypointDataset, lines 42-62 *)

ValidationKeypointDataset_init(csv, ann) ==
    LET keypoint_columns == {col \in csv.columns : has_keypoint(col)}
    IN  IF ~(keypoint_columns \subseteq csv.columns)
        THEN Raise("ValueError", "ValidationKeypointDataset.__init__")
        ELSE Value([cls |-> "ValidationKeypointDataset", data_frame |-> csv,
                    annotations |-> ann, keypoint_columns |-> keypoint_columns])

ValidationKeypointDataset_getitem(self, idx) ==
    LET row == self.data_frame.rows[idx]
    IN  IF "Frame Number" \notin DOMAIN row \/ "Actual Strike" \notin DOMAIN row
        THEN Raise("KeyError", "ValidationKeypointDataset.__getitem__")
        ELSE Value([keypoints |-> [col \in self.keypoint_columns |-> row[col]],
                    labels |-> dict_get(self.annotations, py_int(row["Frame Number"]),
                                        STRIKE_TYPE_TO_ID["No Strike"]),
                    frame_number |-> py_int(row["Frame Number"]),
                    actual_strike |-> row["Actual Strike"]])

(* class ValidationComparisonDataset, lines 64-80 *)

ValidationComparisonDataset_init(csv) ==
    IF ~({"Frame Number", "Predicted Strike", "Actual Strike"} \subseteq csv.columns)
    THEN Raise("ValueError", "ValidationComparisonDataset.__init__")
    ELSE Value([cls |-> "ValidationComparisonDataset", data_frame |-> csv])

ValidationComparisonDataset_getitem(self, idx) ==
    LET row == self.data_frame.rows[idx]
    IN  IF \/ row["Predicted Strike"] \notin DOMAIN STRIKE_TYPE_TO_ID
           \/ row["Actual Strike"] \notin DOMAIN STRIKE_TYPE_TO_ID
        THEN Raise("KeyError", "ValidationComparisonDataset.__getitem__")
        ELSE Value([frame_number |-> py_int(row["Frame Number"]),
                    predicted_strike |-> STRIKE_TYPE_TO_ID[row["Predicted Strike"]],
                    actual_strike |-> STRIKE_TYPE_TO_ID[row["Actual Strike"]]])

\* a validation that runs the model: one more row right after each training pass
validate_with_inference(validation_loader) ==
    LET total == Len(validation_loader.data_frame.rows)
    IN  Rat(IF model.epochs < total THEN model.epochs ELSE total, total)

(* validate_without_inference, lines 82-90.  The loader yields the items of  *)
(* its dataset in order (batch_size=10, shuffle=False); the sums over the    *)
(* batches are the sums over the items.                                      *)
validate_without_inference(validation_loader) ==
    LET data(i) == ValidationComparisonDataset_getitem(validation_loader, i).value[1]
        total == Len(validation_loader.data_frame.rows)
        correct == Cardinality({i \in 1..total : data(i).predicted_strike = data(i).actual_strike})
    IN  Rat(correct, total)

(* class KeypointDataset, lines 92-118 (transform=None) *)

KeypointDataset_init(csv, ann) ==
    LET keypoint_columns == {col \in csv.columns : has_keypoint(col) /\ has_axis(col)}
    IN  IF "frame_id" \notin csv.columns
        THEN Raise("ValueError", "KeypointDataset.__init__")
        ELSE Value([cls |-> "KeypointDataset", data_frame |-> csv,
                    annotations |-> ann, keypoint_columns |-> keypoint_columns])

KeypointDataset_getitem(self, idx) ==
    LET row == self.data_frame.rows[idx]
    IN  IF "frame_id" \notin DOMAIN row
        THEN Raise("KeyError", "KeypointDataset.__getitem__")
        ELSE Value([keypoints |-> [col \in self.keypoint_columns |-> row[col]],
                    labels |-> dict_get(self.annotations, py_int(row["frame_id"]),
                                        STRIKE_TYPE_TO_ID["No Strike"])])

\* len(dataset), lines 52, 71, 103
dataset_len(self) == Len(self.data_frame.rows)

-----------------------------------------------------------------------------
(* parse_annotations, lines 141-150.  The document is the list of its track *)
(* elements in document order, each [label, boxes], a box being [frame].    *)

\* line 147
frame_ids_of(track) == [i \in 1..Len(track.boxes) |-> py_int(track.boxes[i].frame)]

\* line 149 keeping the first assignment of a frame
assign_first_wins(ann, frame_id, label) ==
    IF frame_id \in DOMAIN ann
    THEN ann
    ELSE dict_set(ann, frame_id, dict_get(STRIKE_TYPE_TO_ID, label, STRIKE_TYPE_TO_ID["No Strike"]))

\* line 149
assign(ann, frame_id, label) ==
    dict_set(ann, frame_id, dict_get(STRIKE_TYPE_TO_ID, label, STRIKE_TYPE_TO_ID["No Strike"]))

\* lines 148-149
RECURSIVE assign_frames(_, _, _)
assign_frames(ann, frame_ids, label) ==
    IF frame_ids = <<>>
    THEN ann
    ELSE assign_frames(assign(ann, Head(frame_ids), label), Tail(frame_ids), label)

\* lines 145-149
RECURSIVE parse_tracks(_, _)
parse_tracks(ann, tracks) ==
    IF tracks = <<>>
    THEN ann
    ELSE parse_tracks(assign_frames(ann, frame_ids_of(Head(tracks)), Head(tracks).label),
                      Tail(tracks))

parse_annotations(xml) == parse_tracks(<<>>, xml)

-----------------------------------------------------------------------------
(* Inputs of the training loop *)

\* rows of the validation CSVs of the model: one whose two labels agree, one
\* whose labels differ (the accuracy depends on nothing else)
ValidationRow(predicted, actual) ==
    [col \in {"Frame Number", "Predicted Strike", "Actual Strike"} |->
        CASE col = "Frame Number" -> "0"
          [] col = "Predicted Strike" -> predicted
          [] col = "Actual Strike" -> actual]

ValidationRows == {ValidationRow("Jab", "Jab"), ValidationRow("Jab", "No Strike")}

\* a validation CSV: at least one row (an empty one divides by zero at line 90)
ValidationCSVs ==
    [columns : {{"Frame Number", "Predicted Strike", "Actual Strike"}},
     rows : UNION {[1..n -> ValidationRows] : n \in 1..MaxRows}]

\* SpecAcc: accuracies in hundredths; a profile is a list of accuracies (head)
\* continued by a staircase from its last value
HeadValues == {50, 60}

\* the accuracies of the checkpoint example, in hundredths
ExampleAccuracies == <<50, 60, 55, 70>>

Clamp(x) == IF x < 0 THEN 0 ELSE IF x > 100 THEN 100 ELSE x

Profiles ==
    [head : [1..PrefixLen -> HeadValues] \cup {ExampleAccuracies}, step : {0}, period : {1}]
    \cup [head : {<<50>>, <<100>>}, step : {-5, 5}, period : {1, 10}]

AccAt(pr, e) ==
    IF e < Len(pr.head)
    THEN Rat(pr.head[e + 1], 100)
    ELSE Rat(Clamp(pr.head[Len(pr.head)] + pr.step * ((e - Len(pr.head) + 1) \div pr.period)), 100)

NoProfile == [head |-> <<0>>, step |-> 0, period |-> 1]

-----------------------------------------------------------------------------
(* train_until_threshold_met, lines 172-221 *)

PATIENCE == 10

MIN_DELTA == Rat(1, 100)

MAX_EPOCHS == 100

\* os.path.join(model_save_dir, f"model_epoch_{epoch}.pth")
model_path(e) == <<"model_epoch_", e, ".pth">>

\* torch.save(state_dict, path): creates the file or replaces its content
torch_save(dir, state_dict, path) ==
    {f \in dir : f.path # path} \cup {[path |-> path, state_dict |-> state_dict]}

\* line 173: the state when the for loop is first reached
InitTrain ==
    /\ pc = "next"
    /\ video = 0
    /\ validation_dataset = <<>>
    /\ acc_profile = NoProfile
    /\ model = [video |-> 0, epochs |-> 0]
    /\ best_accuracy = Rat(0, 1)
    /\ epoch = 0
    /\ early_stopping = EarlyStopping_init(PATIENCE, MIN_DELTA)
    /\ save_dir = {}
    /\ hist = <<>>
    /\ written = {}
    /\ saved = {}
    /\ fed = <<>>
    /\ DataIdle

\* lines 174-188: one more triple from zip(...), up to "epoch = 0"
SetupVideo(ds, profile) ==
    /\ pc = "next"
    /\ video < NumVideos
    /\ video' = video + 1
    /\ validation_dataset' = ds
    /\ acc_profile' = profile
    /\ model' = [video |-> video + 1, epochs |-> 0]
    /\ best_accuracy' = Rat(0, 1)
    /\ epoch' = 0
    /\ pc' = "train"
    /\ hist' = <<>>
    /\ written' = {}
    /\ UNCHANGED <<early_stopping, save_dir, saved, fed>>
    /\ UNCHANGED dataVars

\* line 205 with >= for >
improves_or_equal(validation_accuracy, best) == ~RatGT(best, validation_accuracy)

\* line 217 with > for >=
cap_exceeded(e) == e > MAX_EPOCHS

\* lines 205, 212, 217: the three tests of the loop body
improves(validation_accuracy, best) == RatGT(validation_accuracy, best)

stop_requested(es) == es.early_stop

cap_reached(e) == e >= MAX_EPOCHS

\* lines 189-221: one pass of the while loop, validation_accuracy being the
\* value line 202 computes
Epoch(validation_accuracy) ==
    /\ pc = "train"
    /\ LET trained == [model EXCEPT !.epochs = model.epochs + 1]
           save == improves(validation_accuracy, best_accuracy)
           es == EarlyStopping_call(early_stopping, validation_accuracy)
       IN  /\ model' = trained
           /\ best_accuracy' = IF save THEN validation_accuracy ELSE best_accuracy
           /\ save_dir' = IF save THEN torch_save(save_dir, trained, model_path(epoch))
                                  ELSE save_dir
           /\ written' = IF save THEN written \cup {epoch} ELSE written
           /\ saved' = IF save THEN saved \cup {[path |-> model_path(epoch), state_dict |-> trained]}
                               ELSE saved
           /\ early_stopping' = es
           /\ hist' = Append(hist, validation_accuracy)
           /\ IF stop_requested(es)
              THEN /\ pc' = "next"
                   /\ epoch' = epoch
              ELSE /\ epoch' = epoch + 1
                   /\ pc' = IF cap_reached(epoch + 1) THEN "next" ELSE "train"
    /\ UNCHANGED <<video, validation_dataset, acc_profile, fed>>
    /\ UNCHANGED dataVars

\* line 174, zip exhausted: the function returns
Return ==
    /\ pc = "next"
    /\ video = NumVideos
    /\ pc' = "done"
    /\ UNCHANGED <<video, validation_dataset, acc_profile, model, best_accuracy, epoch,
                   early_stopping, save_dir, hist, written, saved, fed>>
    /\ UNCHANGED dataVars

StartVideo ==
    \E csv \in ValidationCSVs :
        LET made == ValidationComparisonDataset_init(csv)
        IN  made.raised = <<>> /\ SetupVideo(made.value, NoProfile)

TrainEpoch == validation_dataset # <<>> /\ Epoch(validate_without_inference(validation_dataset[1]))

Next == StartVideo \/ TrainEpoch \/ Return

Spec == InitTrain /\ [][Next]_vars

\* The same loop with line 202's value taken from a profile
StartVideoAcc == \E pr \in Profiles : SetupVideo(<<>>, pr)

TrainEpochAcc == Epoch(AccAt(acc_profile, epoch))

NextAcc == StartVideoAcc \/ TrainEpochAcc \/ Return

SpecAcc == InitTrain /\ [][NextAcc]_vars

FairSpecAcc == SpecAcc /\ WF_vars(NextAcc)

-----------------------------------------------------------------------------
(* EarlyStopping on its own: any patience, min_delta and values *)

PatienceValues == 0..MaxPatience

MinDeltaValues == {Rat(0, 100), Rat(1, 100)}

LossValues == {Rat(97, 100), Rat(99, 100), Rat(100, 100)}

InitES ==
    /\ pc = "es"
    /\ video = 0
    /\ validation_dataset = <<>>
    /\ acc_profile = NoProfile
    /\ model = [video |-> 0, epochs |-> 0]
    /\ best_accuracy = Rat(0, 1)
    /\ epoch = 0
    /\ \E p \in PatienceValues, d \in MinDeltaValues : early_stopping = EarlyStopping_init(p, d)
    /\ save_dir = {}
    /\ hist = <<>>
    /\ written = {}
    /\ saved = {}
    /\ fed = <<>>
    /\ DataIdle

\* early_stopping(val_loss)
Call(val_loss) ==
    /\ pc = "es"
    /\ Len(fed) < MaxCalls
    /\ early_stopping' = EarlyStopping_call(early_stopping, val_loss)
    /\ fed' = Append(fed, val_loss)
    /\ UNCHANGED <<pc, video, validation_dataset, acc_profile, model, best_accuracy, epoch,
                   save_dir, hist, written, saved>>
    /\ UNCHANGED dataVars

NextES == \E v \in LossValues : Call(v)

SpecES == InitES /\ [][NextES]_vars

-----------------------------------------------------------------------------
(* Report writers, lines 251-264 and 288-296.  csv.writer writes str(value) *)
(* for each cell; the file is created and its header written before the    *)
(* first row is read, so an exception leaves the rows written before it.   *)

Min(a, b) == IF a <= b THEN a ELSE b

report_row(frame_number, predicted_strike, actual_strike, header) ==
    [col \in header |->
        CASE col = "Frame Number" -> frame_number
          [] col = "Actual Strike" -> actual_strike
          [] OTHER -> predicted_strike]

\* dataset[idx], by the class of the dataset
getitem(self, idx) ==
    CASE self.cls = "KeypointDataset" -> KeypointDataset_getitem(self, idx)
      [] self.cls = "ValidationKeypointDataset" -> ValidationKeypointDataset_getitem(self, idx)
      [] self.cls = "ValidationComparisonDataset" -> ValidationComparisonDataset_getitem(self, idx)

\* compare_predictions, lines 288-296; validation_data is a dataset whose
\* items have 'frame_number' and 'actual_strike'.  zip takes the next item of
\* validation_data, then the next prediction, and stops when either is exhausted.
compare_predictions(validation_data, predictions) ==
    LET header == {"Frame Number", "Predicted Strike", "Actual Strike"}
        taken == Min(dataset_len(validation_data), Len(predictions) + 1)
        failing == {i \in 1..taken : getitem(validation_data, i).raised # <<>>}
        first_failing == CHOOSE i \in failing : \A j \in failing : i <= j
        n == IF failing = {} THEN Min(dataset_len(validation_data), Len(predictions))
                             ELSE first_failing - 1
        data(i) == getitem(validation_data, i).value[1]
        \* str() of the item's actual_strike: a label id or the CSV's text
        actual_text(i) == IF validation_data.cls = "ValidationComparisonDataset"
                          THEN py_str(data(i).actual_strike)
                          ELSE data(i).actual_strike
        rows == [i \in 1..n |-> report_row(py_str(data(i).frame_number),
                                           STRIKE_TYPES[predictions[i] + 1],
                                           actual_text(i), header)]
    IN  [raised |-> IF failing = {} THEN <<>> ELSE getitem(validation_data, first_failing).raised,
         value |-> <<[columns |-> header, rows |-> rows]>>]

\* compare_with_validation_data, lines 251-264
compare_with_validation_data(validation_csv, predictions) ==
    LET header == {"Frame Number", "Model Prediction", "Actual Strike"}
        n == Min(Len(validation_csv.rows), Len(predictions))
        missing == ~({"Frame Number", "Actual Strike"} \subseteq validation_csv.columns)
        rows == [i \in 1..n |-> report_row(validation_csv.rows[i]["Frame Number"],
                                           STRIKE_TYPES[predictions[i] + 1],
                                           validation_csv.rows[i]["Actual Strike"], header)]
    IN  IF missing /\ n > 0
        THEN [raised |-> <<[type |-> "KeyError", where |-> "compare_with_validation_data"]>>,
              value |-> <<[columns |-> header, rows |-> <<>>]>>]
        ELSE [raised |-> <<>>, value |-> <<[columns |-> header, rows |-> rows]>>]

-----------------------------------------------------------------------------
(* Annotation parsing and the training dataset                              *)

TrackLabels == {"Jab", "Cross", "jab"}

BoxLists ==
    LET box(t) == [frame |-> t]
    IN  {<<>>, <<box("0")>>, <<box("1")>>, <<box("0"), box("1")>>, <<box("1"), box("0")>>,
         <<box("0"), box("0")>>}

XmlDocuments == UNION {[1..n -> [label : TrackLabels, boxes : BoxLists]] : n \in 0..MaxTracks}

\* a keypoint CSV of frames 0, 1, 2
TrainingRow(i) ==
    [col \in {"frame_id", "keypoint_0_x"} |-> IF col = "frame_id" THEN py_str(i - 1) ELSE "0.5"]

TrainingCSV == [columns |-> {"frame_id", "keypoint_0_x"}, rows |-> [i \in 1..3 |-> TrainingRow(i)]]

InitAnn ==
    /\ TrainIdle("ann")
    /\ xml_file \in XmlDocuments
    /\ annotations = <<>>
    /\ csv_file = TrainingCSV
    /\ dataset = <<>>
    /\ raised = <<>>
    /\ item = <<>>
    /\ report_file = <<>>
    /\ report_ids = <<>>

\* line 176
ParseAnnotations ==
    /\ pc = "ann"
    /\ annotations = <<>>
    /\ annotations' = <<parse_annotations(xml_file)>>
    /\ UNCHANGED <<xml_file, csv_file, dataset, raised, item, report_file, report_ids>>
    /\ UNCHANGED trainVars

\* the constructor of class cls on a CSV file
Construct(cls, csv, ann) ==
    LET made == CASE cls = "KeypointDataset" -> KeypointDataset_init(csv, ann)
                  [] cls = "ValidationKeypointDataset" -> ValidationKeypointDataset_init(csv, ann)
                  [] cls = "ValidationComparisonDataset" -> ValidationComparisonDataset_init(csv)
    IN  /\ dataset' = made.value
        /\ raised' = made.raised
        /\ item' = <<>>

\* line 177
ConstructTrainDataset ==
    /\ pc = "ann"
    /\ annotations # <<>>
    /\ dataset = <<>>
    /\ Construct("KeypointDataset", csv_file, annotations[1])
    /\ UNCHANGED <<xml_file, annotations, csv_file, report_file, report_ids>>
    /\ UNCHANGED trainVars

\* dataset[idx]
GetItem(idx) ==
    /\ dataset # <<>>
    /\ raised = <<>>
    /\ idx \in 1..dataset_len(dataset[1])
    /\ LET got == getitem(dataset[1], idx)
       IN  /\ raised' = got.raised
           /\ item' = IF got.raised = <<>> THEN <<[idx |-> idx, value |-> got.value[1]]>> ELSE <<>>
    /\ UNCHANGED <<xml_file, annotations, csv_file, dataset, report_file, report_ids>>
    /\ UNCHANGED trainVars

NextAnn == ParseAnnotations \/ ConstructTrainDataset \/ (\E idx \in 1..3 : GetItem(idx))

SpecAnn == InitAnn /\ [][NextAnn]_vars

-----------------------------------------------------------------------------
(* Dataset construction, row access and reports on arbitrary CSV files      *)

ActualNames == {"Jab", "High Kick"}

PredictionIds == {0, 1, 7}

\* row i of an input CSV with the given columns
InputRow(columns, i, actual) ==
    [col \in columns |->
        CASE col \in {"frame_id", "Frame Number"} -> py_str(i - 1)
          [] col = "Predicted Strike" -> "Jab"
          [] col = "Actual Strike" -> actual
          [] OTHER -> "0.5"]

InputCSVs ==
    UNION {UNION {{[columns |-> columns, rows |-> [i \in 1..n |-> InputRow(columns, i, actuals[i])]] :
                     actuals \in [1..n -> ActualNames]} :
                  n \in 0..MaxCsvRows} :
           columns \in SUBSET ColumnUniverse}

PredictionLists == UNION {[1..n -> PredictionIds] : n \in 0..MaxPredictions}

DatasetClasses == {"KeypointDataset", "ValidationKeypointDataset", "ValidationComparisonDataset"}

InitData ==
    /\ TrainIdle("data")
    /\ xml_file = <<>>
    /\ annotations = <<>>
    /\ csv_file \in InputCSVs
    /\ dataset = <<>>
    /\ raised = <<>>
    /\ item = <<>>
    /\ report_file = <<>>
    /\ report_ids = <<>>

\* a dataset of some class is constructed on the input CSV
ConstructDataset(cls) ==
    /\ pc = "data"
    /\ dataset = <<>>
    /\ raised = <<>>
    /\ Construct(cls, csv_file, <<>>)
    /\ UNCHANGED <<xml_file, annotations, csv_file, report_file, report_ids>>
    /\ UNCHANGED trainVars

\* the label ids a report is written from
ids_of_names(names) == [i \in 1..Len(names) |-> STRIKE_TYPE_TO_ID[names[i]]]

\* compare_predictions(dataset, predictions, filepath)
ComparePredictions(predictions) ==
    /\ pc = "data"
    /\ dataset # <<>>
    /\ raised = <<>>
    /\ dataset[1].cls \in {"ValidationKeypointDataset", "ValidationComparisonDataset"}
    /\ LET wrote == compare_predictions(dataset[1], predictions)
           n == Len(wrote.value[1].rows)
       IN  /\ report_file' = wrote.value
           /\ raised' = wrote.raised
           /\ report_ids' = <<[by |-> "compare_predictions", from |-> dataset[1].cls,
                               predicted |-> SubSeq(predictions, 1, n),
                               actual |-> ids_of_names([i \in 1..n |-> csv_file.rows[i]["Actual Strike"]])]>>
    /\ pc' = "reported"
    /\ item' = <<>>
    /\ UNCHANGED <<xml_file, annotations, csv_file, dataset>>
    /\ UNCHANGED <<video, validation_dataset, acc_profile, model, best_accuracy, epoch,
                   early_stopping, save_dir, hist, written, saved, fed>>

\* compare_with_validation_data(validation_csv, predictions, model_save_dir, epoch)
CompareWithValidationData(predictions) ==
    /\ pc = "data"
    /\ raised = <<>>
    /\ LET wrote == compare_with_validation_data(csv_file, predictions)
           n == Len(wrote.value[1].rows)
       IN  /\ report_file' = wrote.value
           /\ raised' = wrote.raised
           /\ report_ids' = <<[by |-> "compare_with_validation_data", from |-> "csv",
                               predicted |-> SubSeq(predictions, 1, n),
                               actual |-> ids_of_names([i \in 1..n |-> csv_file.rows[i]["Actual Strike"]])]>>
    /\ pc' = "reported"
    /\ item' = <<>>
    /\ UNCHANGED <<xml_file, annotations, csv_file, dataset>>
    /\ UNCHANGED <<video, validation_dataset, acc_profile, model, best_accuracy, epoch,
                   early_stopping, save_dir, hist, written, saved, fed>>

\* ValidationComparisonDataset(report)
ReadReport ==
    /\ pc = "reported"
    /\ raised = <<>>
    /\ Construct("ValidationComparisonDataset", report_file[1], <<>>)
    /\ pc' = "readback"
    /\ UNCHANGED <<xml_file, annotations, csv_file, report_file, report_ids>>
    /\ UNCHANGED <<video, validation_dataset, acc_profile, model, best_accuracy, epoch,
                   early_stopping, save_dir, hist, written, saved, fed>>

NextData ==
    \/ \E cls \in DatasetClasses : ConstructDataset(cls)
    \/ \E idx \in 1..(MaxCsvRows + 1) : GetItem(idx)
    \/ \E predictions \in PredictionLists : ComparePredictions(predictions)
    \/ \E predictions \in PredictionLists : CompareWithValidationData(predictions)
    \/ ReadReport

SpecData == InitData /\ [][NextData]_vars

-----------------------------------------------------------------------------
(* Claims about train_until_threshold_met *)

\* the loop of the current video is about to run its first epoch
LoopBegins == pc = "train" /\ hist = <<>>

\* C1: when the epoch loop of a video begins, the early-stopping state is that
\* of a fresh instance: best unset, counter 0, stop flag false.
C1_FreshEarlyStoppingPerVideo ==
    LoopBegins => /\ early_stopping.best_loss = <<>>
                  /\ early_stopping.counter = 0
                  /\ early_stopping.early_stop = FALSE

\* accuracies of SpecAcc are hundredths: <<n, 100>>
Hundredths(a) == a[1]

\* the best accuracy seen before the i-th epoch of the run (0.0 when none)
BestBefore(i) ==
    LET S == {0} \cup {Hundredths(hist[j]) : j \in 1..(i - 1)}
    IN  CHOOSE m \in S : \A x \in S : x <= m

\* C2: within one video's run a checkpoint is written at an epoch iff that
\* epoch's validation accuracy strictly exceeds the best accuracy seen earlier
\* in the run (0.0 at the start); the file then holds the parameters of that
\* epoch; for the accuracies 0.5, 0.6, 0.55, 0.7 the checkpoints are those of
\* the 1st, 2nd and 4th epoch.
C2_CheckpointIffStrictImprovement ==
    /\ \A i \in 1..Len(hist) : ((i - 1) \in written) <=> (Hundredths(hist[i]) > BestBefore(i))
    /\ \A e \in written : [path |-> model_path(e),
                           state_dict |-> [video |-> video, epochs |-> e + 1]] \in save_dir
    /\ (hist = [i \in 1..4 |-> Rat(ExampleAccuracies[i], 100)]) => written = {0, 1, 3}

C2_Witness ==
    /\ hist = [i \in 1..4 |-> Rat(ExampleAccuracies[i], 100)]
    /\ written = {0, 1, 3}

\* C3: checkpoints accumulate: every checkpoint ever written is still in the
\* save directory with the parameters it was written with, and the number of
\* files is the number of improving epochs over all videos.
C3_CheckpointsAccumulate ==
    /\ saved \subseteq save_dir
    /\ Cardinality(save_dir) = Cardinality(saved)

\* C6: every video's epoch loop ends: at the first epoch after which
\* EarlyStopping reports stopped, otherwise when the epoch counter reaches
\* 100; no video runs more than 100 epochs (indices 0..99), and the next video
\* (or the return) follows.
C6_LoopTerminates ==
    /\ [](pc = "train" => epoch \in 0..(MAX_EPOCHS - 1))
    /\ [](Len(hist) <= MAX_EPOCHS)
    /\ [][pc = "train" =>
            /\ Len(hist') = Len(hist) + 1
            /\ (pc' = "next") <=> (early_stopping'.early_stop \/ Len(hist') = MAX_EPOCHS)
            /\ (pc' = "train") <=> ~(early_stopping'.early_stop \/ Len(hist') = MAX_EPOCHS)]_vars
    /\ \A k \in 1..NumVideos : (video = k /\ pc = "train") ~> (pc = "next" /\ video = k)
    /\ \A k \in 1..NumVideos : (video = k) ~> (IF k < NumVideos THEN video = k + 1 ELSE pc = "done")

\* a loop ended by the cap of 100 epochs, EarlyStopping not having stopped it
C6_Witness ==
    /\ pc = "next"
    /\ Len(hist) = MAX_EPOCHS
    /\ epoch = MAX_EPOCHS
    /\ ~early_stopping.early_stop

\* C10: the validation accuracy of a video is the same at every epoch, so a
\* video's run writes at most one checkpoint, at epoch 0, and exactly when
\* that accuracy is greater than 0.
C10_ConstantAccuracyOneCheckpoint ==
    /\ \A i, j \in 1..Len(hist) : hist[i] = hist[j]
    /\ written \subseteq {0}
    /\ Len(hist) >= 1 => ((0 \in written) <=> hist[1][1] > 0)

C10_Witness ==
    /\ Len(hist) >= 2
    /\ written = {0}

-----------------------------------------------------------------------------
(* Claims about EarlyStopping *)

\* the value of the last call
LastFed == fed[Len(fed)]

\* C4: the first value becomes best and leaves the counter alone; a later
\* value v becomes best and resets the counter only when best - v > min_delta;
\* otherwise the counter is incremented, best is kept, and the stop flag is
\* set once the counter has reached patience.  With patience 2 and min_delta
\* 0.01, after 1.0, 1.0, 0.99 the flag is set at the 3rd value and not before.
C4_TransitionRule ==
    /\ [][fed' # fed =>
            LET s == early_stopping
                t == early_stopping'
                v == fed'[Len(fed')]
            IN  /\ t.patience = s.patience
                /\ t.min_delta = s.min_delta
                /\ s.best_loss = <<>> =>
                      /\ t.best_loss = <<v>>
                      /\ t.counter = s.counter
                      /\ t.early_stop = s.early_stop
                /\ (s.best_loss # <<>> /\ s.best_loss[1][1] - v[1] > s.min_delta[1]) =>
                      /\ t.best_loss = <<v>>
                      /\ t.counter = 0
                      /\ t.early_stop = s.early_stop
                /\ (s.best_loss # <<>> /\ ~(s.best_loss[1][1] - v[1] > s.min_delta[1])) =>
                      /\ t.best_loss = s.best_loss
                      /\ t.counter = s.counter + 1
                      /\ t.early_stop = (s.early_stop \/ t.counter >= t.patience)]_vars
    /\ [](  (early_stopping.patience = 2 /\ early_stopping.min_delta = Rat(1, 100))
            => /\ fed = <<Rat(100, 100), Rat(100, 100), Rat(99, 100)>> => early_stopping.early_stop
               /\ fed \in {<<>>, <<Rat(100, 100)>>, <<Rat(100, 100), Rat(100, 100)>>}
                     => ~early_stopping.early_stop)

C4_Witness ==
    /\ early_stopping.patience = 2
    /\ early_stopping.min_delta = Rat(1, 100)
    /\ fed = <<Rat(100, 100), Rat(100, 100), Rat(99, 100)>>
    /\ early_stopping.early_stop
    /\ early_stopping.counter = 2

\* C5: once the stop flag is set it stays set after every later call.
C5_StoppedIsTerminal == [][early_stopping.early_stop => early_stopping'.early_stop]_vars

\* a call after the stop that qualified as an improvement and reset the counter
C5_Witness ==
    /\ early_stopping.early_stop
    /\ early_stopping.counter = 0
    /\ early_stopping.patience > 0
    /\ Len(fed) >= 3
    /\ early_stopping.best_loss = <<LastFed>>

-----------------------------------------------------------------------------
(* Claims about the annotations, the datasets and the reports *)

\* the tracks of the document that hold a box for frame f
TracksOf(f) ==
    {t \in 1..Len(xml_file) :
        \E b \in 1..Len(xml_file[t].boxes) : xml_file[t].boxes[b].frame = DecimalText[f + 1]}

LastTrackOf(f) == CHOOSE t \in TracksOf(f) : \A u \in TracksOf(f) : u <= t

\* the label id of a track label: its place in the enumeration, 0 when outside
ExpectedId(label) ==
    CASE label = "Jab" -> 1
      [] label = "Cross" -> 2
      [] OTHER -> 0

\* C7: after parse_annotations every frame of some track maps to the label id
\* of the last track (in document order) holding a box for it, a label outside
\* the enumeration counting as 0; a frame of no track is absent from the
\* mapping, and KeypointDataset returns label 0 for it.
C7_LastWriteWins ==
    /\ annotations # <<>> =>
          \A f \in 0..2 :
             IF TracksOf(f) = {}
             THEN f \notin DOMAIN annotations[1]
             ELSE /\ f \in DOMAIN annotations[1]
                  /\ annotations[1][f] = ExpectedId(xml_file[LastTrackOf(f)].label)
    /\ item # <<>> =>
          item[1].value.labels = IF TracksOf(item[1].idx - 1) = {}
                                 THEN 0
                                 ELSE ExpectedId(xml_file[LastTrackOf(item[1].idx - 1)].label)

\* frame 0 is in two tracks of different label ids and frame 2, of no track, was read
C7_Witness ==
    /\ annotations # <<>>
    /\ Cardinality(TracksOf(0)) = 2
    /\ ExpectedId(xml_file[1].label) # ExpectedId(xml_file[2].label)
    /\ annotations[1][0] = ExpectedId(xml_file[2].label)
    /\ item # <<>>
    /\ item[1].idx = 3
    /\ item[1].value.labels = 0

\* the columns whose absence is a schema error of the class
RequiredColumns(cls) ==
    CASE cls = "KeypointDataset" -> {"frame_id"}
      [] cls = "ValidationKeypointDataset" -> {"Frame Number"}
      [] cls = "ValidationComparisonDataset" -> {"Frame Number", "Predicted Strike", "Actual Strike"}

\* where the constructor of a class raises
ConstructorOf(cls) ==
    CASE cls = "KeypointDataset" -> "KeypointDataset.__init__"
      [] cls = "ValidationKeypointDataset" -> "ValidationKeypointDataset.__init__"
      [] cls = "ValidationComparisonDataset" -> "ValidationComparisonDataset.__init__"

\* C8: a dataset is constructed only on a CSV holding the required columns of
\* its class (a missing one fails the construction, never a later row
\* access) and its length is then the row count; a construction fails only
\* when a required column is missing.
C8_SchemaErrorAtConstruction ==
    pc = "data" =>
        /\ dataset # <<>> =>
              /\ RequiredColumns(dataset[1].cls) \subseteq csv_file.columns
              /\ dataset_len(dataset[1]) = Len(csv_file.rows)
        /\ \A cls \in DatasetClasses :
              (raised # <<>> /\ raised[1].where = ConstructorOf(cls)) =>
                  ~(RequiredColumns(cls) \subseteq csv_file.columns)

\* C9: a report written by compare_predictions or compare_with_validation_data
\* and read back with ValidationComparisonDataset constructs, has the rows
\* written, and yields for every row the predicted and actual label ids it
\* was written from.
C9_ReportRoundTrip ==
    pc = "readback" =>
        /\ raised = <<>>
        /\ dataset # <<>>
        /\ dataset_len(dataset[1]) = Len(report_ids[1].predicted)
        /\ item # <<>> =>
              /\ item[1].value.predicted_strike = report_ids[1].predicted[item[1].idx]
              /\ item[1].value.actual_strike = report_ids[1].actual[item[1].idx]

====
